---- MODULE Spec2Model ----
(***************************************************************************)
(* Model of the chat store of frontend-dbass: the ChatProvider reducer and *)
(* its asynchronous operations (contexts/UIContext.tsx), the helpers they  *)
(* use (utils/helpers.ts), the backend they call (MockApi / ApiService)    *)
(* and the ChatPage consumer that auto-creates a conversation.             *)
(*                                                                         *)
(* Conventions.  A JavaScript string is a sequence of one-character        *)
(* strings.  An id is a pair <<kind, n>>: <<"conv", n>> is the string      *)
(* "conv-n", <<"msg", n>> is "msg-n", <<"gen", n>> is the n-th value       *)
(* returned by generateId() (random, taken as fresh), NULL is null.  A     *)
(* Date object is <<"Date", t>> with t an instant of the clock `now`, and  *)
(* its ISO string (Date.prototype.toISOString) is <<"ISO", t>>.            *)
(***************************************************************************)
EXTENDS Integers, Sequences, FiniteSets

(* ------------------------------ bounds --------------------------------- *)
\* clock ticks the model lets pass after start-up
MaxTicks == 1
\* operations the user issues in one run (send, create, select, delete,
\* clear error)
MaxOps == 2
\* conversations the backend opened for earlier sends, in the runs that start
\* with a backend holding more conversations than the cap
BackendSends == 48
\* operations the user issues in such a run
MaxCapOps == 1
MaxMessages == 2
MaxAppOps == 3

(* -------------------------- program constants -------------------------- *)
MAX_MESSAGE_LENGTH == 4000
MAX_CONVERSATIONS == 50

NULL == <<"null", 0>>
NoError == "null"
SendFailure == "Failed to send message"
DeleteFailure == "Failed to delete conversation"
NotFound == "Conversation not found"
LoadFailure == "Failed to load conversations"

NewConversationTitle == <<"N","e","w"," ","C","o","n","v","e","r","s","a","t","i","o","n">>

(* ------------------------------ strings -------------------------------- *)
RECURSIVE trimStart(_)
trimStart(s) ==
    IF s # <<>> /\ Head(s) = " " THEN trimStart(Tail(s)) ELSE s

RECURSIVE trimEnd(_)
trimEnd(s) ==
    IF s # <<>> /\ s[Len(s)] = " " THEN trimEnd(SubSeq(s, 1, Len(s) - 1)) ELSE s

\* String.prototype.trim
trim(s) == trimEnd(trimStart(s))

\* s.split(' '): the pieces between single spaces (empty pieces included)
RECURSIVE split(_)
split(s) ==
    IF \A i \in 1..Len(s) : s[i] # " "
    THEN <<s>>
    ELSE LET p == CHOOSE i \in 1..Len(s) :
                      s[i] = " " /\ \A j \in 1..(i - 1) : s[j] # " "
         IN  <<SubSeq(s, 1, p - 1)>> \o split(SubSeq(s, p + 1, Len(s)))

\* words.join(' ')
RECURSIVE join(_)
join(words) ==
    IF words = <<>> THEN <<>>
    ELSE IF Len(words) = 1 THEN words[1]
    ELSE words[1] \o <<" ">> \o join(Tail(words))

\* words.slice(0, n)
slice(seq, n) == SubSeq(seq, 1, IF Len(seq) < n THEN Len(seq) ELSE n)

truncateText(text, maxLength) ==
    IF Len(text) <= maxLength THEN text
    ELSE SubSeq(text, 1, maxLength) \o <<".", ".", ".">>

generateConversationTitle(firstMessage) ==
    truncateText(join(slice(split(trim(firstMessage)), 6)), 50)

validateMessage(content) ==
    IF Len(content) = 0 \/ Len(trim(content)) = 0
    THEN [isValid |-> FALSE, error |-> "Message cannot be empty"]
    ELSE IF Len(content) > MAX_MESSAGE_LENGTH
    THEN [isValid |-> FALSE, error |-> "Message too long"]
    ELSE [isValid |-> TRUE, error |-> NoError]

(* ------------------------- messages, conversations --------------------- *)
\* new Date(t), Date.prototype.getTime, Date.prototype.toISOString
Date(t) == <<"Date", t>>
getTime(d) == d[2]
toISOString(d) == <<"ISO", d[2]>>

createMessage(id, content, role, t) ==
    [id |-> id, content |-> trim(content), role |-> role,
     timestamp |-> Date(t), isTyping |-> FALSE]

updateConversationWithMessage(conversation, message, t) ==
    [conversation EXCEPT
        !.messages = Append(conversation.messages, message),
        !.updatedAt = Date(t),
        !.title = IF Len(conversation.messages) = 0
                  THEN generateConversationTitle(message.content)
                  ELSE conversation.title]

\* [...conversations].sort((a, b) => b.updatedAt.getTime() -
\* a.updatedAt.getTime()): Array.prototype.sort is stable, so an element
\* comes after the more recent ones and after the equally recent ones that
\* precede it in the input.
sortConversationsByDate(conversations) ==
    LET n == Len(conversations)
        at == <<>> \o [i \in 1..n |-> getTime(conversations[i].updatedAt)]
        rank == <<>> \o [i \in 1..n |->
                    1 + Cardinality({j \in 1..n :
                            at[j] > at[i] \/ (at[j] = at[i] /\ j < i)})]
    IN  [p \in 1..n |-> conversations[CHOOSE i \in 1..n : rank[i] = p]]

\* a cut that keeps the first entries of the list as it comes
limitConversations_noSort(conversations) ==
    slice(conversations, MAX_CONVERSATIONS)

limitConversations(conversations) ==
    slice(sortConversationsByDate(conversations), MAX_CONVERSATIONS)

(* ------------------------------ reducer -------------------------------- *)
initialState ==
    [conversations |-> <<>>, currentConversationId |-> NULL,
     isLoading |-> FALSE, isTyping |-> FALSE, error |-> NoError]


\* a DELETE_CONVERSATION that leaves the selection alone
reduceDeleteConversation_keepCurrent(st, id) ==
    [st EXCEPT
        !.conversations =
            LET keep(conv) == conv.id # id
            IN  SelectSeq(st.conversations, keep)]

\* case 'DELETE_CONVERSATION'
reduceDeleteConversation(st, id) ==
    [st EXCEPT
        !.conversations =
            LET keep(conv) == conv.id # id
            IN  SelectSeq(st.conversations, keep),
        !.currentConversationId =
            IF st.currentConversationId = id
            THEN NULL ELSE st.currentConversationId]

\* case 'ADD_CONVERSATION'
reduceAddConversation(st, conv) ==
    [st EXCEPT
        !.conversations = <<conv>> \o st.conversations,
        !.currentConversationId = conv.id]

\* an ADD_MESSAGE that opens the conversation when it is not in the list
reduceAddMessage_upsert(st, payload, t) ==
    IF \E i \in DOMAIN st.conversations :
           st.conversations[i].id = payload.conversationId
    THEN [st EXCEPT
            !.conversations =
                [i \in DOMAIN st.conversations |->
                    IF st.conversations[i].id = payload.conversationId
                    THEN updateConversationWithMessage(
                             st.conversations[i], payload.message, t)
                    ELSE st.conversations[i]]]
    ELSE [st EXCEPT
            !.conversations =
                <<[id |-> payload.conversationId,
                   title |-> generateConversationTitle(payload.message.content),
                   messages |-> <<payload.message>>,
                   createdAt |-> Date(t), updatedAt |-> Date(t),
                   mode |-> "normal"]>> \o st.conversations]

\* an ADD_MESSAGE that ignores the payload's conversationId
reduceAddMessage_everywhere(st, payload, t) ==
    [st EXCEPT
        !.conversations =
            [i \in DOMAIN st.conversations |->
                updateConversationWithMessage(
                    st.conversations[i], payload.message, t)]]

\* case 'ADD_MESSAGE'
reduceAddMessage(st, payload, t) ==
    [st EXCEPT
        !.conversations =
            [i \in DOMAIN st.conversations |->
                IF st.conversations[i].id = payload.conversationId
                THEN updateConversationWithMessage(
                         st.conversations[i], payload.message, t)
                ELSE st.conversations[i]]]

\* chatReducer; t is the instant of the dispatch (new Date() in ADD_MESSAGE)
chatReducer(st, action, t) ==
    CASE action.type = "SET_LOADING" ->
            [st EXCEPT !.isLoading = action.payload]
      [] action.type = "SET_TYPING" ->
            [st EXCEPT !.isTyping = action.payload]
      [] action.type = "SET_ERROR" ->
            [st EXCEPT !.error = action.payload]
      [] action.type = "SET_CONVERSATIONS" ->
            [st EXCEPT !.conversations = action.payload]
      [] action.type = "ADD_CONVERSATION" ->
            reduceAddConversation(st, action.payload)
      [] action.type = "DELETE_CONVERSATION" ->
            reduceDeleteConversation(st, action.payload)
      [] action.type = "SET_CURRENT_CONVERSATION" ->
            [st EXCEPT !.currentConversationId = action.payload]
      [] action.type = "ADD_MESSAGE" ->
            reduceAddMessage(st, action.payload, t)

\* the dispatches the handlers make
SetLoading(b) == [type |-> "SET_LOADING", payload |-> b]
SetTyping(b) == [type |-> "SET_TYPING", payload |-> b]
SetError(e) == [type |-> "SET_ERROR", payload |-> e]
SetConversations(list) == [type |-> "SET_CONVERSATIONS", payload |-> list]
AddConversation(conv) == [type |-> "ADD_CONVERSATION", payload |-> conv]
DeleteConversationAction(id) == [type |-> "DELETE_CONVERSATION", payload |-> id]
SetCurrentConversation(id) == [type |-> "SET_CURRENT_CONVERSATION", payload |-> id]
AddMessage(id, message) ==
    [type |-> "ADD_MESSAGE",
     payload |-> [conversationId |-> id, message |-> message]]

\* state.conversations.find(conv => conv.id === id) found something
hasConversation(list, id) == \E i \in DOMAIN list : list[i].id = id

\* the first conversation of the list with that id (the list has one)
findConversation(list, id) ==
    list[CHOOSE i \in DOMAIN list :
            list[i].id = id /\ \A j \in 1..(i - 1) : list[j].id # id]

idsOf(list) == {list[i].id : i \in DOMAIN list}

(* ------------------------------ backend -------------------------------- *)
\* mockConversations, with Date.now() at module load taken as instant 108
\* and 100 s as the unit (3600000 ms = 36); the assistant texts are cut to
\* their first words.
mockConversations ==
    << [id |-> <<"conv", 1>>,
        title |-> <<"H","o","w"," ","t","o"," ","b","u","i","l","d"," ","a"," ","R","e","a","c","t"," ","a","p","p">>,
        messages |->
            << [id |-> <<"msg", 1>>, content |-> <<"H","o","w"," ","d","o"," ","I"," ","c","r","e","a","t","e"," ","a"," ","n","e","w"," ","R","e","a","c","t"," ","a","p","p","l","i","c","a","t","i","o","n","?">>,
                role |-> "user", timestamp |-> Date(72), isTyping |-> FALSE],
               [id |-> <<"msg", 2>>, content |-> <<"T","o"," ","c","r","e","a","t","e"," ","a"," ","n","e","w"," ","R","e","a","c","t"," ","a","p","p","l","i","c","a","t","i","o","n">>,
                role |-> "assistant", timestamp |-> Date(73), isTyping |-> FALSE] >>,
        createdAt |-> Date(72), updatedAt |-> Date(73), mode |-> "normal"],
       [id |-> <<"conv", 2>>,
        title |-> <<"U","n","d","e","r","s","t","a","n","d","i","n","g"," ","T","y","p","e","S","c","r","i","p","t"," ","i","n","t","e","r","f","a","c","e","s">>,
        messages |->
            << [id |-> <<"msg", 3>>, content |-> <<"W","h","a","t"," ","a","r","e"," ","T","y","p","e","S","c","r","i","p","t"," ","i","n","t","e","r","f","a","c","e","s"," ","a","n","d"," ","h","o","w"," ","d","o"," ","t","h","e","y"," ","w","o","r","k","?">>,
                role |-> "user", timestamp |-> Date(36), isTyping |-> FALSE],
               [id |-> <<"msg", 4>>, content |-> <<"T","y","p","e","S","c","r","i","p","t"," ","i","n","t","e","r","f","a","c","e","s"," ","a","r","e">>,
                role |-> "assistant", timestamp |-> Date(37), isTyping |-> FALSE] >>,
        createdAt |-> Date(36), updatedAt |-> Date(37), mode |-> "normal"],
       [id |-> <<"conv", 3>>,
        title |-> <<"C","S","S"," ","G","r","i","d"," ","v","s"," ","F","l","e","x","b","o","x">>,
        messages |->
            << [id |-> <<"msg", 5>>, content |-> <<"W","h","e","n"," ","s","h","o","u","l","d"," ","I"," ","u","s","e"," ","C","S","S"," ","G","r","i","d"," ","v","s"," ","F","l","e","x","b","o","x","?">>,
                role |-> "user", timestamp |-> Date(0), isTyping |-> FALSE],
               [id |-> <<"msg", 6>>, content |-> <<"C","S","S"," ","G","r","i","d"," ","a","n","d"," ","F","l","e","x","b","o","x">>,
                role |-> "assistant", timestamp |-> Date(1), isTyping |-> FALSE] >>,
        createdAt |-> Date(0), updatedAt |-> Date(1), mode |-> "research"] >>

\* getMockResponse: one of the canned openings of the mode, picked at random
getMockResponse(userMessage, mode, pick) ==
    IF mode = "deepthink" THEN <<"D", pick>>
    ELSE IF mode = "research" THEN <<"R", pick>>
    ELSE <<"N", pick>>

\* MockApi.sendMessage(request) run at instant t, with generateId() giving
\* <<"gen", g>>, <<"gen", g + 1>>, <<"gen", g + 2>>: the backend list after
\* the call and the response data.
mockSendMessage(list, request, t, g, pick) ==
    LET userMessage ==
            createMessage(<<"gen", g>>, request.message, "user", t)
        found == request.conversationId # NULL
                 /\ hasConversation(list, request.conversationId)
        created ==
            [id |-> <<"gen", g + 1>>,
             title |-> truncateText(request.message, 50),
             messages |-> <<>>, createdAt |-> Date(t), updatedAt |-> Date(t),
             mode |-> request.mode]
        list1 == IF found THEN list ELSE <<created>> \o list
        target == IF found THEN request.conversationId ELSE created.id
        aiMessage ==
            createMessage(<<"gen", g + 2>>,
                getMockResponse(request.message, request.mode, pick),
                "assistant", t)
        push(conv) ==
            [conv EXCEPT
                !.messages = conv.messages \o <<userMessage, aiMessage>>,
                !.updatedAt = Date(t)]
        at == CHOOSE i \in DOMAIN list1 :
                  list1[i].id = target /\ \A j \in 1..(i - 1) : list1[j].id # target
    IN  [list |-> [list1 EXCEPT ![at] = push(list1[at])],
         data |-> [message |-> aiMessage, conversationId |-> target]]

\* MockApi.deleteConversation(id): the list after the call and the response
mockDeleteConversation(list, id) ==
    IF ~hasConversation(list, id)
    THEN [list |-> list, success |-> FALSE, message |-> NotFound]
    ELSE LET at == CHOOSE i \in DOMAIN list :
                       list[i].id = id /\ \A j \in 1..(i - 1) : list[j].id # id
         IN  [list |-> SubSeq(list, 1, at - 1) \o SubSeq(list, at + 1, Len(list)),
              success |-> TRUE, message |-> "Conversation deleted successfully"]

(* ------------------------------ storage -------------------------------- *)
\* What the medium (window.localStorage) holds under one key: nothing, a
\* text that is not JSON, or the JSON text of a value.  A JSON text is kept
\* as the value it denotes: a Date has become its ISO string in it.
Absent == [kind |-> "absent", value |-> <<>>]
Corrupt == [kind |-> "corrupt", value |-> <<>>]
Json(v) == [kind |-> "json", value |-> v]

\* The medium is "ok", "unavailable" (every access throws), "full" (every
\* write throws, the probe's included) or "nearlyFull" (the probe fits, the
\* value does not).
MediumModes == {"ok", "unavailable", "full", "nearlyFull"}

\* a call's outcome: an exception, or a return value (null or not)
Throw == [threw |-> TRUE, isNull |-> TRUE, value |-> <<>>]
ReturnNull == [threw |-> FALSE, isNull |-> TRUE, value |-> <<>>]
Return(v) == [threw |-> FALSE, isNull |-> FALSE, value |-> v]

\* JSON.stringify by the TypeScript type of the value: Date.prototype.toJSON
\* turns each Date into its ISO string
messageToJSON(m) == [m EXCEPT !.timestamp = toISOString(@)]
conversationToJSON(c) ==
    [c EXCEPT !.createdAt = toISOString(@),
              !.updatedAt = toISOString(@),
              !.messages = [k \in DOMAIN @ |-> messageToJSON(@[k])]]
JSONstringify(T, value) ==
    IF T = "Conversation[]"
    THEN [i \in DOMAIN value |-> conversationToJSON(value[i])]
    ELSE value

\* JSON.parse: throws on a text that is not JSON; strings stay strings
JSONparse(item) ==
    IF item.kind = "corrupt" THEN Throw ELSE Return(item.value)

\* localStorage.getItem / setItem / removeItem on the medium
rawGetItem(mode, item) ==
    IF mode = "unavailable" THEN Throw
    ELSE IF item.kind = "absent" THEN ReturnNull
    ELSE Return(item)
rawSetItem(mode, item, text) ==
    IF mode = "ok" THEN [threw |-> FALSE, item |-> Json(text)]
    ELSE [threw |-> TRUE, item |-> item]
rawRemoveItem(mode, item) ==
    IF mode = "unavailable" THEN [threw |-> TRUE, item |-> item]
    ELSE [threw |-> FALSE, item |-> Absent]

\* LocalStorageService.isAvailable: the probe write and its removal, caught
isAvailable(mode) == mode \in {"ok", "nearlyFull"}

\* a getItem whose JSON.parse is outside the try block
getItem_noCatch(mode, item) ==
    IF ~isAvailable(mode) THEN ReturnNull
    ELSE LET got == rawGetItem(mode, item)
         IN  IF got.threw THEN ReturnNull
             ELSE IF got.isNull THEN ReturnNull
             ELSE JSONparse(got.value)

\* LocalStorageService.getItem: the outcome the caller sees
getItem(mode, item) ==
    IF ~isAvailable(mode) THEN ReturnNull
    ELSE LET got == rawGetItem(mode, item)
         IN  IF got.threw THEN ReturnNull
             ELSE IF got.isNull THEN ReturnNull
             ELSE LET parsed == JSONparse(got.value)
                  IN  IF parsed.threw THEN ReturnNull ELSE parsed

\* LocalStorageService.setItem: the outcome and what the key holds afterwards
setItem(mode, item, T, value) ==
    IF ~isAvailable(mode) THEN [threw |-> FALSE, item |-> item]
    ELSE LET put == rawSetItem(mode, item, JSONstringify(T, value))
         IN  [threw |-> FALSE, item |-> put.item]

\* LocalStorageService.removeItem
removeItem(mode, item) ==
    IF ~isAvailable(mode) THEN [threw |-> FALSE, item |-> item]
    ELSE LET gone == rawRemoveItem(mode, item)
         IN  [threw |-> FALSE, item |-> gone.item]

\* LocalStorageService.clear, seen from one key
clear(mode, item) ==
    IF ~isAvailable(mode) THEN [threw |-> FALSE, item |-> item]
    ELSE LET gone == rawRemoveItem(mode, item)
         IN  [threw |-> FALSE, item |-> gone.item]

\* storageUtils
saveConversations(mode, item, conversations) ==
    setItem(mode, item, "Conversation[]", conversations)
loadConversations(mode, item) ==
    LET got == getItem(mode, item)
    IN  IF got.threw THEN got
        ELSE IF got.isNull THEN Return(<<>>)
        ELSE got
saveCurrentConversationId(mode, item, id) ==
    IF id # NULL
    THEN setItem(mode, item, "string", id)
    ELSE removeItem(mode, item)
loadCurrentConversationId(mode, item) ==
    LET got == getItem(mode, item)
    IN  IF got.threw THEN got
        ELSE IF got.isNull THEN Return(NULL)
        ELSE got

\* SessionStorageService: the same code over sessionStorage (its isAvailable
\* probe succeeds when the medium is "ok" or "nearlyFull")
sessionGetItem(mode, item) ==
    IF mode \notin {"ok", "nearlyFull"} THEN ReturnNull
    ELSE LET got == rawGetItem(mode, item)
         IN  IF got.threw THEN ReturnNull
             ELSE IF got.isNull THEN ReturnNull
             ELSE LET parsed == JSONparse(got.value)
                  IN  IF parsed.threw THEN ReturnNull ELSE parsed
sessionSetItem(mode, item, T, value) ==
    IF mode \notin {"ok", "nearlyFull"} THEN [threw |-> FALSE, item |-> item]
    ELSE LET put == rawSetItem(mode, item, JSONstringify(T, value))
         IN  [threw |-> FALSE, item |-> put.item]
sessionRemoveItem(mode, item) ==
    IF mode \notin {"ok", "nearlyFull"} THEN [threw |-> FALSE, item |-> item]
    ELSE LET gone == rawRemoveItem(mode, item)
         IN  [threw |-> FALSE, item |-> gone.item]
sessionClear(mode, item) ==
    IF mode \notin {"ok", "nearlyFull"} THEN [threw |-> FALSE, item |-> item]
    ELSE LET gone == rawRemoveItem(mode, item)
         IN  [threw |-> FALSE, item |-> gone.item]

\* a JavaScript scalar is its type and its literal text; these are the
\* values the || operator replaces by its right operand: false, 0 and ''
falsy(v) ==
    v \in { [type |-> "boolean", text |-> <<"f", "a", "l", "s", "e">>],
            [type |-> "number", text |-> <<"0">>],
            [type |-> "string", text |-> <<>>] }

\* MemoryStorageService: the Map's entry under one key (Absent, or the
\* value itself: nothing is serialized)
Held(v) == [kind |-> "held", value |-> v]

\* MemoryStorageService.getItem: this.storage.get(key) || null
memoryGetItem(entry) ==
    IF entry.kind = "absent" \/ falsy(entry.value) THEN ReturnNull
    ELSE Return(entry.value)
memorySetItem(entry, value) == [threw |-> FALSE, item |-> Held(value)]
memoryRemoveItem(entry) == [threw |-> FALSE, item |-> Absent]
memoryClear(entry) == [threw |-> FALSE, item |-> Absent]

(* --------------------------- UI preferences ---------------------------- *)
\* UI_CONSTANTS.MOBILE_BREAKPOINT
MOBILE_BREAKPOINT == 768

\* isMobile(): window.innerWidth < 768 (helpers.ts exports it as
\* isMobileDevice)
isMobile(innerWidth) == innerWidth < MOBILE_BREAKPOINT

\* UIProvider's initialState, evaluated with the viewport of that moment
initialUIState(innerWidth) ==
    [sidebarOpen |-> ~isMobile(innerWidth),
     currentPage |-> "chat",
     theme |-> "light",
     language |-> "en",
     isMobile |-> isMobile(innerWidth)]

UIFields == {"sidebarOpen", "currentPage", "theme", "language", "isMobile"}

\* { ...state, ...payload }, the payload a Partial<UIState>: the fields it
\* has and their values
spread(st, payload) ==
    [f \in UIFields |-> IF f \in payload.fields THEN payload.value[f] ELSE st[f]]

\* case 'LOAD_SAVED_STATE'
reduceLoadSavedState(st, payload) == spread(st, payload)

\* uiReducer
uiReducer(st, action) ==
    CASE action.type = "TOGGLE_SIDEBAR" ->
            [st EXCEPT !.sidebarOpen = ~st.sidebarOpen]
      [] action.type = "SET_SIDEBAR_OPEN" ->
            [st EXCEPT !.sidebarOpen = action.payload]
      [] action.type = "SET_CURRENT_PAGE" ->
            [st EXCEPT !.currentPage = action.payload]
      [] action.type = "SET_THEME" ->
            [st EXCEPT !.theme = action.payload]
      [] action.type = "SET_LANGUAGE" ->
            [st EXCEPT !.language = action.payload]
      [] action.type = "SET_IS_MOBILE" ->
            [st EXCEPT !.isMobile = action.payload]
      [] action.type = "LOAD_SAVED_STATE" ->
            reduceLoadSavedState(st, action.payload)
      [] OTHER -> st

UIAction(type, payload) == [type |-> type, payload |-> payload]

\* storageUtils.loadUIState: getItem(UI_STATE) || {}
loadUIState(mode, item) ==
    LET got == getItem(mode, item)
    IN  IF got.isNull
        THEN [fields |-> {}, value |-> initialUIState(MOBILE_BREAKPOINT)]
        ELSE [fields |-> UIFields, value |-> got.value]

\* storageUtils.saveUIState / saveTheme / saveLanguage
saveUIState(mode, item, st) == setItem(mode, item, "UIState", st)
saveTheme(mode, item, theme) == setItem(mode, item, "string", theme)
saveLanguage(mode, item, language) == setItem(mode, item, "string", language)

\* save effects that leave the dedicated theme and language keys alone
saveEffects_blobOnly(mode, stored, rendered, st, first) ==
    [stored EXCEPT !.uiState = saveUIState(mode, @, st).item]

\* the three save effects after a render with state st: the whole object
\* always (the state object is new), the theme and the language when they
\* differ from the render before (or on the first render)
saveEffects(mode, stored, rendered, st, first) ==
    [uiState |-> saveUIState(mode, stored.uiState, st).item,
     theme |-> IF first \/ st.theme # rendered.theme
               THEN saveTheme(mode, stored.theme, st.theme).item
               ELSE stored.theme,
     language |-> IF first \/ st.language # rendered.language
                  THEN saveLanguage(mode, stored.language, st.language).item
                  ELSE stored.language]

\* handleResize with the state of the render that registered it
handleResize(st, innerWidth) ==
    LET mobile == isMobile(innerWidth)
    IN  IF mobile # st.isMobile
        THEN LET s1 == uiReducer(st, UIAction("SET_IS_MOBILE", mobile))
             IN  IF mobile /\ st.sidebarOpen
                 THEN uiReducer(s1, UIAction("SET_SIDEBAR_OPEN", FALSE))
                 ELSE s1
        ELSE st

\* setCurrentPage(page)
setCurrentPage(st, page) ==
    LET s1 == uiReducer(st, UIAction("SET_CURRENT_PAGE", page))
    IN  IF st.isMobile
        THEN uiReducer(s1, UIAction("SET_SIDEBAR_OPEN", FALSE))
        ELSE s1

(* ------------------------ App.tsx ChatInterface ------------------------ *)
\* ids: '1', '2', ... and Date.now().toString()
AppId(n) == <<"app", n>>

\* { id, content, role }
appMessage(id, content, role) == [id |-> id, content |-> content, role |-> role]

\* the useState initial value of conversations, with Date.now() of the first
\* render taken as instant 108 (3600000 ms = 36); texts cut to their first
\* words
appConversations ==
    << [id |-> AppId(1),
        title |-> <<"H", "o", "w">>,
        messages |-> << appMessage(AppId(1), <<"H", "o", "w">>, "user"),
                        appMessage(AppId(2), <<"T", "o">>, "assistant") >>,
        updatedAt |-> Date(72)],
       [id |-> AppId(2),
        title |-> <<"U", "n", "d">>,
        messages |-> << appMessage(AppId(3), <<"W", "h", "a", "t">>, "user"),
                        appMessage(AppId(4), <<"T", "y", "p", "e">>, "assistant") >>,
        updatedAt |-> Date(36)] >>

\* conversations.find(c => c.id === id): found, and the first match
appHas(conversations, id) == \E i \in DOMAIN conversations : conversations[i].id = id
appFind(conversations, id) ==
    conversations[CHOOSE i \in DOMAIN conversations :
        conversations[i].id = id /\ \A j \in 1..(i - 1) : conversations[j].id # id]

\* prev.map(conv => conv.id === id ? { ...conv, messages, updatedAt } : conv)
appSetMessages(conversations, id, messages, t) ==
    [i \in DOMAIN conversations |->
        IF conversations[i].id = id
        THEN [conversations[i] EXCEPT !.messages = messages,
                                      !.updatedAt = Date(t)]
        ELSE conversations[i]]

\* prev.filter(c => c.id !== id)
appWithout(conversations, id) ==
    SelectSeq(conversations, LAMBDA c : c.id # id)

\* handleSend up to setTimeout, with the render's messages, input and
\* currentConversationId; the timer keeps updatedMessages and the id
handleSend(a, t) ==
    IF trim(a.input) = <<>> THEN a
    ELSE LET newMessage == appMessage(AppId(t), a.input, "user")
             updatedMessages == Append(a.messages, newMessage)
         IN  [a EXCEPT
                 !.messages = updatedMessages,
                 !.input = <<>>,
                 !.conversations = appSetMessages(@, a.currentConversationId,
                                                  updatedMessages, t),
                 !.timers = Append(@,
                     [updatedMessages |-> updatedMessages,
                      currentConversationId |-> a.currentConversationId])]

\* the setTimeout callback of handleSend
timerFires(a, timer, t) ==
    LET aiResponse == appMessage(AppId(t + 1), <<"T", "h", "i", "s">>, "assistant")
        finalMessages == Append(timer.updatedMessages, aiResponse)
    IN  [a EXCEPT
            !.messages = finalMessages,
            !.conversations = appSetMessages(@, timer.currentConversationId,
                                             finalMessages, t)]

\* handleNewConversation
handleNewConversation(a, t) ==
    LET newConv == [id |-> AppId(t),
                    title |-> NewConversationTitle,
                    messages |-> <<>>,
                    updatedAt |-> Date(t)]
    IN  [a EXCEPT !.conversations = <<newConv>> \o @,
                  !.currentConversationId = newConv.id,
                  !.messages = <<>>]

\* handleSelectConversation(id)
handleSelectConversation(a, id) ==
    IF appHas(a.conversations, id)
    THEN [a EXCEPT !.currentConversationId = id,
                   !.messages = appFind(a.conversations, id).messages]
    ELSE a

\* handleDeleteConversation(id)
handleDeleteConversation(a, id, t) ==
    LET a1 == [a EXCEPT !.conversations = appWithout(@, id)]
        remaining == appWithout(a.conversations, id)
    IN  IF a.currentConversationId = id
        THEN IF Len(remaining) > 0
             THEN [a1 EXCEPT !.currentConversationId = remaining[1].id,
                             !.messages = remaining[1].messages]
             ELSE handleNewConversation(a1, t)
        ELSE a1

(* ------------------------------- state --------------------------------- *)
VARIABLES
    state,            \* ChatProvider's reducer state (ChatState)
    now,              \* the clock: Date.now() / new Date()
    api,              \* MockApi.conversations
    aliased,          \* ids whose object in state is the object api holds
    sends,            \* sendMessage calls, in issue order
    deletes,          \* deleteConversation calls, in issue order
    loading,          \* loadConversations: "idle", "pending", "done"
    storedCurrentId,  \* what the medium holds under the current-id key
    storedConversations, \* what the medium holds under the conversations key
    medium,           \* the state of the medium (MediumModes)
    result,           \* the outcome of the last direct storage call
    chatPageMounted,  \* ChatPage is rendered under the provider
    providerMounted,  \* ChatProvider's mount effects have run
    event,            \* the handler that ran last
    ops,              \* operations the user has issued
    impl,             \* the three storage services, called side by side
    ui,               \* UIProvider: state, viewport, stored preferences
    app               \* App.tsx ChatInterface: its useState values, timers

vars == <<state, now, api, aliased, sends, deletes, loading,
          storedCurrentId, storedConversations, medium, result,
          chatPageMounted, providerMounted, event, ops, impl, ui, app>>

\* what lives outside ChatProvider and the default storage service
shellVars == <<impl, ui, app>>

\* the keys and values the three services are called with
ImplKeys == {"a", "b"}
StorableValues ==
    { [type |-> "boolean", text |-> <<"f", "a", "l", "s", "e">>],
      [type |-> "boolean", text |-> <<"t", "r", "u", "e">>],
      [type |-> "number", text |-> <<"0">>],
      [type |-> "number", text |-> <<"1">>],
      [type |-> "string", text |-> <<>>],
      [type |-> "string", text |-> <<"a">>] }

\* the services as constructed: nothing stored, nothing called
implInitial ==
    [local |-> [k \in ImplKeys |-> Absent],
     session |-> [k \in ImplKeys |-> Absent],
     memory |-> [k \in ImplKeys |-> Absent],
     written |-> [k \in ImplKeys |-> Absent],
     call |-> "none",
     key |-> "a",
     got |-> [local |-> ReturnNull, session |-> ReturnNull,
              memory |-> ReturnNull]]

\* the viewport widths: below the breakpoint, at it, a desktop's
Widths == {767, 768, 1024}

\* the preferences a previous session may have left
SavedUIStates ==
    { [sidebarOpen |-> FALSE, currentPage |-> "settings", theme |-> "dark",
       language |-> "he", isMobile |-> mobile] : mobile \in BOOLEAN }

\* UIProvider before its mount effects, on a first visit
uiInitial ==
    [state |-> initialUIState(1024),
     innerWidth |-> 1024,
     stored |-> [uiState |-> Absent, theme |-> Absent, language |-> Absent],
     mounted |-> FALSE,
     call |-> "none"]

\* ChatInterface at its first render; timers are the pending setTimeout
\* callbacks in the order they were set, log counts the messages handed to
\* each conversation, ops the user's actions
appInitial ==
    [conversations |-> appConversations,
     currentConversationId |-> AppId(1),
     messages |-> appConversations[1].messages,
     input |-> <<>>,
     timers |-> <<>>,
     log |-> <<>>,
     call |-> "none",
     ops |-> 0]

InitShell ==
    /\ impl = implInitial
    /\ ui = uiInitial
    /\ app = appInitial
    /\ app = appInitial

Texts == { <<" ", "h", "i", " ">>, <<" ", " ">> }
Modes == {"normal"}
Picks == {"1"}

Event(type, sid, id) == [type |-> type, sid |-> sid]

\* createNewConversation's object at instant t
newConversation(t) ==
    [id |-> <<"conv", t>>, title |-> NewConversationTitle, messages |-> <<>>,
     createdAt |-> Date(t), updatedAt |-> Date(t), mode |-> "normal"]

\* ChatPage's effect: with no current conversation, createNewConversation()
ChatPageEffect(mounted, st, t) ==
    IF mounted /\ ~hasConversation(st.conversations, st.currentConversationId)
    THEN chatReducer(st, AddConversation(newConversation(t)), t)
    ELSE st

\* the effects that follow a render: ChatPage's, then the provider's saves
\* of the conversations (only when there are some) and of the current id
\* (setItem for an id, removeItem for null)
Commit(st, ev) ==
    /\ state' = ChatPageEffect(chatPageMounted, st, now)
    /\ storedConversations' =
           IF Len(state'.conversations) > 0
           THEN saveConversations(medium, storedConversations,
                                  state'.conversations).item
           ELSE storedConversations
    /\ storedCurrentId' =
           saveCurrentConversationId(medium, storedCurrentId,
                                     state'.currentConversationId).item
    /\ event' = ev
    /\ UNCHANGED <<medium, result, shellVars>>

\* objects shared with the backend show the backend's writes
syncAliased(list, backend, ids) ==
    [i \in DOMAIN list |->
        IF list[i].id \in ids /\ hasConversation(backend, list[i].id)
        THEN findConversation(backend, list[i].id)
        ELSE list[i]]

Init ==
    /\ state = initialState
    /\ now = 108
    /\ api = mockConversations
    /\ aliased = {}
    /\ sends = <<>>
    /\ deletes = <<>>
    /\ loading = "idle"
    /\ \E previous \in BOOLEAN :
           \* a first visit, or what an earlier session left behind
           /\ storedCurrentId = IF previous THEN Json(<<"conv", 1>>) ELSE Absent
           /\ storedConversations =
                  IF previous
                  THEN Json(JSONstringify("Conversation[]",
                                          limitConversations(mockConversations)))
                  ELSE Absent
    /\ medium = "ok"
    /\ result = ReturnNull
    /\ chatPageMounted \in BOOLEAN
    /\ providerMounted = FALSE
    /\ event = Event("init", 0, NULL)
    /\ ops = 0
    /\ InitShell

(* ------------------------------ actions -------------------------------- *)
\* the mount effects, children first: ChatPage's effect, loadConversations()
\* up to its await, loadCurrentConversation()
ProviderMount ==
    /\ ~providerMounted
    /\ providerMounted' = TRUE
    /\ loading' = "pending"
    /\ LET s0 == ChatPageEffect(chatPageMounted, state, now)
           s1 == chatReducer(s0, SetLoading(TRUE), now)
           s2 == chatReducer(s1, SetError(NoError), now)
           savedId == loadCurrentConversationId(medium, storedCurrentId).value
           s3 == IF savedId # NULL
                 THEN chatReducer(s2, SetCurrentConversation(savedId), now)
                 ELSE s2
       IN  Commit(s3, Event("mount", 0, savedId))
    /\ UNCHANGED <<ops, now, api, aliased, sends, deletes, chatPageMounted>>

\* a loadConversations without its finally block
loadConversationsResume_noFinally(st, response, t) ==
    IF response.success
    THEN chatReducer(st,
             SetConversations(limitConversations(response.data)), t)
    ELSE chatReducer(st, SetError(response.message), t)

\* loadConversations after its await
loadConversationsResume(st, response, t) ==
    LET s1 == IF response.success
              THEN chatReducer(st,
                       SetConversations(limitConversations(response.data)), t)
              ELSE chatReducer(st, SetError(response.message), t)
    IN  chatReducer(s1, SetLoading(FALSE), t)

LoadResolve(ok) ==
    /\ loading = "pending"
    /\ loading' = "done"
    /\ LET response ==
               IF ok THEN [success |-> TRUE, data |-> api, message |-> NoError]
               ELSE [success |-> FALSE, data |-> <<>>, message |-> LoadFailure]
       IN  /\ Commit(loadConversationsResume(state, response, now),
                     Event(IF ok THEN "loadOk" ELSE "loadFail", 0, NULL))
           /\ aliased' = IF ok THEN idsOf(limitConversations(api)) ELSE aliased
    /\ UNCHANGED <<ops, now, api, sends, deletes, chatPageMounted,
                   providerMounted>>

\* sendMessage up to its await
\* a send that does not dispatch SET_ERROR null first
sendMessageStart_noClear(st, content, userMessage, t) ==
    LET s2 == IF st.currentConversationId # NULL
              THEN chatReducer(st,
                       AddMessage(st.currentConversationId, userMessage), t)
              ELSE st
    IN  chatReducer(s2, SetTyping(TRUE), t)

sendMessageStart(st, content, userMessage, t) ==
    LET s1 == chatReducer(st, SetError(NoError), t)
        s2 == IF st.currentConversationId # NULL
              THEN chatReducer(s1,
                       AddMessage(st.currentConversationId, userMessage), t)
              ELSE s1
    IN  chatReducer(s2, SetTyping(TRUE), t)

SendMessage(content, mode) ==
    /\ providerMounted
    /\ ops < MaxOps
    /\ ops' = ops + 1
    /\ LET cur == state.currentConversationId
           userMessage == createMessage(<<"gen", 4 * (Len(sends) + 1)>>, content, "user", now)
       IN  /\ Commit(sendMessageStart(state, content, userMessage, now),
                     Event("sendMessage", Len(sends) + 1, cur))
           /\ sends' = Append(sends,
                  [cur |-> cur, content |-> content, mode |-> mode,
                   userMessage |-> userMessage, status |-> "pending",
                   calls |-> 1,
                   appended |-> hasConversation(state.conversations, cur),
                   before |-> IF hasConversation(state.conversations, cur)
                              THEN Len(findConversation(state.conversations, cur).messages)
                              ELSE 0,
                   opsAt |-> ops + 1,
                   response |-> NULL])
           /\ aliased' = aliased \ {cur}
    /\ UNCHANGED <<now, api, deletes, loading, chatPageMounted, providerMounted>>

\* sendMessage after its await, by the response
\* a finally block that leaves the typing indicator alone
sendMessageFinally_skip(st, t) == st

sendMessageFinally(st, t) == chatReducer(st, SetTyping(FALSE), t)

sendMessageResume(st, captured, response, t) ==
    LET s1 == IF response.success
              THEN LET s2 == IF captured = NULL
                             THEN chatReducer(st,
                                      SetCurrentConversation(
                                          response.data.conversationId), t)
                             ELSE st
                   IN  chatReducer(s2,
                           AddMessage(response.data.conversationId,
                                      response.data.message), t)
              ELSE chatReducer(st, SetError(response.message), t)
    IN  sendMessageFinally(s1, t)

\* the await of sendMessage settles: what the backend and the store hold
\* after the continuation has run
sendResolveOutcome(st, backend, shared, s, sid, ok, pick, t) ==
    LET request == [message |-> s.content, conversationId |-> s.cur,
                    mode |-> s.mode]
        served == mockSendMessage(backend, request, t, 4 * sid + 1, pick)
        response ==
            IF ok THEN [success |-> TRUE, data |-> served.data,
                        message |-> "Message sent successfully"]
            ELSE [success |-> FALSE, data |-> NULL, message |-> SendFailure]
        shown == IF ok
                 THEN [st EXCEPT !.conversations =
                          syncAliased(st.conversations, served.list, shared)]
                 ELSE st
    IN  [state |-> sendMessageResume(shown, s.cur, response, t),
         api |-> IF ok THEN served.list ELSE backend,
         aliased |-> IF ok THEN shared \ {served.data.conversationId}
                     ELSE shared,
         conversationId |-> IF ok THEN served.data.conversationId ELSE NULL]

SendResolve(sid, ok, pick) ==
    /\ sid \in DOMAIN sends
    /\ sends[sid].status = "pending"
    /\ LET s == sends[sid]
           out == sendResolveOutcome(state, api, aliased, s, sid, ok, pick, now)
       IN  /\ Commit(out.state,
                     Event(IF ok THEN "sendOk" ELSE "sendFail", sid, s.cur))
           /\ api' = out.api
           /\ aliased' = out.aliased
           /\ sends' = [sends EXCEPT
                  ![sid].status = IF ok THEN "ok" ELSE "failed",
                  ![sid].response = out.conversationId]
    /\ UNCHANGED <<ops, now, deletes, loading, chatPageMounted, providerMounted>>

\* createNewConversation()
CreateNewConversation ==
    /\ providerMounted
    /\ ops < MaxOps
    /\ ops' = ops + 1
    /\ Commit(chatReducer(state, AddConversation(newConversation(now)), now),
              Event("user", 0, NULL))
    /\ UNCHANGED <<now, api, aliased, sends, deletes, loading,
                   chatPageMounted, providerMounted>>

\* selectConversation(id)
SelectConversation(id) ==
    /\ providerMounted
    /\ ops < MaxOps
    /\ ops' = ops + 1
    /\ Commit(chatReducer(state, SetCurrentConversation(id), now),
              Event("user", 0, NULL))
    /\ UNCHANGED <<now, api, aliased, sends, deletes, loading,
                   chatPageMounted, providerMounted>>

\* deleteConversation(id) up to its await
DeleteConversation(id) ==
    /\ providerMounted
    /\ ops < MaxOps
    /\ ops' = ops + 1
    /\ Commit(chatReducer(state, SetError(NoError), now),
              Event("user", 0, NULL))
    /\ deletes' = Append(deletes, [id |-> id, status |-> "pending"])
    /\ UNCHANGED <<now, api, aliased, sends, loading,
                   chatPageMounted, providerMounted>>

\* a local-first delete: the conversation goes whatever the backend says
deleteConversationResume_localFirst(st, id, response, t) ==
    LET s1 == chatReducer(st, DeleteConversationAction(id), t)
    IN  IF response.success
        THEN s1
        ELSE chatReducer(s1, SetError(response.message), t)

\* deleteConversation after its await
deleteConversationResume(st, id, response, t) ==
    IF response.success
    THEN chatReducer(st, DeleteConversationAction(id), t)
    ELSE chatReducer(st, SetError(response.message), t)

DeleteResolve(did, ok) ==
    /\ did \in DOMAIN deletes
    /\ deletes[did].status = "pending"
    /\ LET id == deletes[did].id
           served == mockDeleteConversation(api, id)
           response ==
               IF ok THEN [success |-> served.success, message |-> served.message]
               ELSE [success |-> FALSE, message |-> DeleteFailure]
       IN  /\ Commit(deleteConversationResume(state, id, response, now),
                     Event(IF response.success THEN "deleteOk" ELSE "deleteFail",
                           did, id))
           /\ api' = IF ok THEN served.list ELSE api
           /\ aliased' = IF response.success THEN aliased \ {id} ELSE aliased
           /\ deletes' = [deletes EXCEPT ![did].status =
                  IF response.success THEN "ok" ELSE "failed"]
    /\ UNCHANGED <<ops, now, sends, loading, chatPageMounted, providerMounted>>

\* clearError()
ClearError ==
    /\ providerMounted
    /\ ops < MaxOps
    /\ ops' = ops + 1
    /\ Commit(chatReducer(state, SetError(NoError), now), Event("user", 0, NULL))
    /\ UNCHANGED <<now, api, aliased, sends, deletes, loading,
                   chatPageMounted, providerMounted>>

Tick ==
    /\ providerMounted
    /\ now < 108 + MaxTicks
    /\ now' = now + 1
    /\ event' = Event("user", 0, NULL)
    /\ UNCHANGED <<ops, state, api, aliased, sends, deletes, loading,
                   storedCurrentId, storedConversations, medium, result,
                   chatPageMounted, providerMounted, shellVars>>

\* the ids the user picks from: the first and last listed conversation, the
\* current one, and "conv-1", listed or not
ListedIds ==
    IF state.conversations = <<>> THEN {}
    ELSE {state.conversations[1].id,
          state.conversations[Len(state.conversations)].id}
SelectableIds == ListedIds \cup {<<"conv", 1>>}
DeletableIds ==
    IF state.conversations = <<>> THEN {}
    ELSE {state.conversations[1].id}
             \cup (idsOf(state.conversations) \cap {state.currentConversationId})

Next ==
    \/ ProviderMount
    \/ \E ok \in BOOLEAN : LoadResolve(ok)
    \/ \E content \in Texts, mode \in Modes : SendMessage(content, mode)
    \/ \E sid \in DOMAIN sends, ok \in BOOLEAN, pick \in Picks :
           SendResolve(sid, ok, pick)
    \/ CreateNewConversation
    \/ \E id \in SelectableIds : SelectConversation(id)
    \/ \E id \in DeletableIds : DeleteConversation(id)
    \/ \E did \in DOMAIN deletes, ok \in BOOLEAN : DeleteResolve(did, ok)
    \/ ClearError
    \/ Tick

Spec == Init /\ [][Next]_vars

\* the promise of apiService.getConversations() always settles (the mock
\* answers after its delay, ApiService catches what is thrown)
\* the provider's load with the user issuing at most MaxCapOps operations
NextLoad ==
    \/ ProviderMount
    \/ \E ok \in BOOLEAN : LoadResolve(ok)
    \/ ops < MaxCapOps
           /\ \E content \in Texts, mode \in Modes : SendMessage(content, mode)
    \/ \E sid \in DOMAIN sends, ok \in BOOLEAN, pick \in Picks :
           SendResolve(sid, ok, pick)
    \/ ops < MaxCapOps /\ CreateNewConversation
    \/ ops < MaxCapOps /\ \E id \in SelectableIds : SelectConversation(id)
    \/ ops < MaxCapOps /\ \E id \in DeletableIds : DeleteConversation(id)
    \/ \E did \in DOMAIN deletes, ok \in BOOLEAN : DeleteResolve(did, ok)
    \/ ops < MaxCapOps /\ ClearError
    \/ Tick

FairSpec ==
    /\ Init
    /\ [][NextLoad]_vars
    /\ WF_vars(\E ok \in BOOLEAN : LoadResolve(ok))

(* ----------------------- the storage service alone --------------------- *)
\* the values a caller hands to the service
SavedCollections ==
    { <<>>, <<newConversation(108)>>, limitConversations(mockConversations) }
SavedIds == { <<"conv", 1>>, <<"conv", 108>> }

\* the chat store stays as constructed while the service is called
chatVars == <<state, now, api, aliased, sends, deletes, loading,
              chatPageMounted, providerMounted, ops>>

InitStorage ==
    /\ state = initialState
    /\ now = 108
    /\ api = mockConversations
    /\ aliased = {}
    /\ sends = <<>>
    /\ deletes = <<>>
    /\ loading = "idle"
    /\ storedCurrentId = Absent
    /\ storedConversations = Absent
    /\ medium \in MediumModes
    /\ result = ReturnNull
    /\ chatPageMounted = FALSE
    /\ providerMounted = FALSE
    /\ event = Event("init", 0, NULL)
    /\ ops = 0
    /\ InitShell

\* the outcome of a call that returns nothing
Void(outcome) == IF outcome.threw THEN Throw ELSE ReturnNull

\* storageService.getItem(STORAGE_KEYS.CONVERSATIONS)
CallGetItem ==
    /\ result' = getItem(medium, storedConversations)
    /\ event' = Event("getItem", 0, NULL)
    /\ UNCHANGED <<shellVars, chatVars, storedCurrentId, storedConversations, medium>>

\* storageService.setItem(STORAGE_KEYS.CONVERSATIONS, conversations)
CallSetItem(conversations) ==
    /\ LET out == setItem(medium, storedConversations,
                          "Conversation[]", conversations)
       IN  /\ storedConversations' = out.item
           /\ result' = Void(out)
    /\ event' = Event("setItem", 0, NULL)
    /\ UNCHANGED <<shellVars, chatVars, storedCurrentId, medium>>

\* storageService.removeItem(STORAGE_KEYS.CONVERSATIONS)
CallRemoveItem ==
    /\ LET out == removeItem(medium, storedConversations)
       IN  /\ storedConversations' = out.item
           /\ result' = Void(out)
    /\ event' = Event("removeItem", 0, NULL)
    /\ UNCHANGED <<shellVars, chatVars, storedCurrentId, medium>>

\* storageService.clear()
CallClear ==
    /\ LET out1 == clear(medium, storedConversations)
           out2 == clear(medium, storedCurrentId)
       IN  /\ storedConversations' = out1.item
           /\ storedCurrentId' = out2.item
           /\ result' = Void(out1)
    /\ event' = Event("clear", 0, NULL)
    /\ UNCHANGED <<shellVars, chatVars, medium>>

\* storageUtils.saveConversations(conversations)
CallSaveConversations(conversations) ==
    /\ LET out == saveConversations(medium, storedConversations, conversations)
       IN  /\ storedConversations' = out.item
           /\ result' = Void(out)
    /\ event' = Event("saveConversations", 0, NULL)
    /\ UNCHANGED <<shellVars, chatVars, storedCurrentId, medium>>

\* storageUtils.loadConversations()
CallLoadConversations ==
    /\ result' = loadConversations(medium, storedConversations)
    /\ event' = Event("loadConversations", 0, NULL)
    /\ UNCHANGED <<shellVars, chatVars, storedCurrentId, storedConversations, medium>>

\* storageUtils.saveCurrentConversationId(id)
CallSaveCurrentConversationId(id) ==
    /\ LET out == saveCurrentConversationId(medium, storedCurrentId, id)
       IN  /\ storedCurrentId' = out.item
           /\ result' = Void(out)
    /\ event' = Event("saveCurrentConversationId", 0, NULL)
    /\ UNCHANGED <<shellVars, chatVars, storedConversations, medium>>

\* storageUtils.loadCurrentConversationId()
CallLoadCurrentConversationId ==
    /\ result' = loadCurrentConversationId(medium, storedCurrentId)
    /\ event' = Event("loadCurrentConversationId", 0, NULL)
    /\ UNCHANGED <<shellVars, chatVars, storedCurrentId, storedConversations, medium>>

\* the environment: the medium changes state (private mode, quota), or
\* something else overwrites the conversations key with a text that is not
\* JSON
MediumChanges(mode) ==
    /\ medium' = mode
    /\ mode # medium
    /\ event' = Event("medium", 0, NULL)
    /\ UNCHANGED <<shellVars, chatVars, storedCurrentId, storedConversations, result>>

ItemCorrupted ==
    /\ medium = "ok"
    /\ storedConversations.kind = "json"
    /\ storedConversations' = Corrupt
    /\ event' = Event("corrupted", 0, NULL)
    /\ UNCHANGED <<shellVars, chatVars, storedCurrentId, medium, result>>

NextStorage ==
    \/ CallGetItem
    \/ \E conversations \in SavedCollections : CallSetItem(conversations)
    \/ CallRemoveItem
    \/ CallClear
    \/ \E conversations \in SavedCollections :
           CallSaveConversations(conversations)
    \/ CallLoadConversations
    \/ \E id \in SavedIds \cup {NULL} : CallSaveCurrentConversationId(id)
    \/ CallLoadCurrentConversationId
    \/ \E mode \in MediumModes : MediumChanges(mode)
    \/ ItemCorrupted

SpecStorage == InitStorage /\ [][NextStorage]_vars

(* ------------------- a backend holding more than the cap --------------- *)
\* The MockApi instance outlives a ChatProvider: these are the sends an
\* earlier provider made, the first into "conv-3", each of the others with
\* no conversation selected (the backend opens one for it).
earlierRequest(n) ==
    [message |-> <<"h", "i">>,
     conversationId |-> IF n = 1 THEN <<"conv", 3>> ELSE NULL,
     mode |-> "normal"]
earlierInstant(n) == 74 + (n * 33) \div (BackendSends + 1)

\* the backend list after the first n of them: a send with no conversation
\* puts the conversation it opens at the head, whatever the list holds
backendAfter(n) ==
    LET opened(k) ==
            Head(mockSendMessage(<<>>, earlierRequest(k), earlierInstant(k),
                                 1000 + 4 * k, "1").list)
    IN  [i \in 1..(n - 1) |-> opened(n + 1 - i)]
            \o mockSendMessage(mockConversations, earlierRequest(1),
                               earlierInstant(1), 1004, "1").list

InitCap ==
    /\ state = initialState
    /\ now = 108
    /\ api = backendAfter(BackendSends + 1)
    /\ aliased = {}
    /\ sends = <<>>
    /\ deletes = <<>>
    /\ loading = "idle"
    /\ storedCurrentId = Absent
    /\ storedConversations = Absent
    /\ medium = "ok"
    /\ result = ReturnNull
    /\ chatPageMounted \in BOOLEAN
    /\ providerMounted = FALSE
    /\ event = Event("init", 0, NULL)
    /\ ops = 0
    /\ InitShell

NextCap ==
    \/ ProviderMount
    \/ \E ok \in BOOLEAN : LoadResolve(ok)
    \/ ops < MaxCapOps
           /\ \E content \in Texts, mode \in Modes : SendMessage(content, mode)
    \/ \E sid \in DOMAIN sends, ok \in BOOLEAN, pick \in Picks :
           SendResolve(sid, ok, pick)
    \/ ops < MaxCapOps /\ CreateNewConversation
    \/ Tick

SpecCap == InitCap /\ [][NextCap]_vars

(* ------------------- a backend holding one conversation ---------------- *)
\* MockApi.conversations after an earlier provider deleted "conv-3" and
\* "conv-2"
backendOfOne ==
    mockDeleteConversation(
        mockDeleteConversation(mockConversations, <<"conv", 3>>).list,
        <<"conv", 2>>).list

InitOne ==
    /\ state = initialState
    /\ now = 108
    /\ api = backendOfOne
    /\ aliased = {}
    /\ sends = <<>>
    /\ deletes = <<>>
    /\ loading = "idle"
    /\ storedCurrentId = Absent
    /\ storedConversations = Absent
    /\ medium = "ok"
    /\ result = ReturnNull
    /\ chatPageMounted \in BOOLEAN
    /\ providerMounted = FALSE
    /\ event = Event("init", 0, NULL)
    /\ ops = 0
    /\ InitShell

SpecOne == InitOne /\ [][Next]_vars

(* ------------------- the three storage services side by side ----------- *)
\* the default service's variables
storageVars == <<storedCurrentId, storedConversations, medium, result, event>>

\* ChatProvider and the default storage service as constructed
ChatAsConstructed ==
    /\ state = initialState
    /\ now = 108
    /\ api = mockConversations
    /\ aliased = {}
    /\ sends = <<>>
    /\ deletes = <<>>
    /\ loading = "idle"
    /\ storedCurrentId = Absent
    /\ storedConversations = Absent
    /\ medium = "ok"
    /\ result = ReturnNull
    /\ chatPageMounted = FALSE
    /\ providerMounted = FALSE
    /\ event = Event("init", 0, NULL)
    /\ ops = 0

InitImpl ==
    /\ ChatAsConstructed
    /\ impl = implInitial
    /\ ui = uiInitial
    /\ app = appInitial

\* setItem(k, v) on each service; both media are available
ImplSetItem(k, v) ==
    /\ impl' = [impl EXCEPT
           !.local[k] = setItem("ok", @, "scalar", v).item,
           !.session[k] = sessionSetItem("ok", @, "scalar", v).item,
           !.memory[k] = memorySetItem(@, v).item,
           !.written[k] = Json(v),
           !.call = "setItem",
           !.key = k]
    /\ UNCHANGED <<chatVars, storageVars, ui, app>>

\* removeItem(k) on each service
ImplRemoveItem(k) ==
    /\ impl' = [impl EXCEPT
           !.local[k] = removeItem("ok", @).item,
           !.session[k] = sessionRemoveItem("ok", @).item,
           !.memory[k] = memoryRemoveItem(@).item,
           !.written[k] = Absent,
           !.call = "removeItem",
           !.key = k]
    /\ UNCHANGED <<chatVars, storageVars, ui, app>>

\* clear() on each service
ImplClear ==
    /\ impl' = [impl EXCEPT
           !.local = [k \in ImplKeys |-> clear("ok", @[k]).item],
           !.session = [k \in ImplKeys |-> sessionClear("ok", @[k]).item],
           !.memory = [k \in ImplKeys |-> memoryClear(@[k]).item],
           !.written = [k \in ImplKeys |-> Absent],
           !.call = "clear"]
    /\ UNCHANGED <<chatVars, storageVars, ui, app>>

\* getItem(k) on each service
ImplGetItem(k) ==
    /\ impl' = [impl EXCEPT
           !.got = [local |-> getItem("ok", impl.local[k]),
                    session |-> sessionGetItem("ok", impl.session[k]),
                    memory |-> memoryGetItem(impl.memory[k])],
           !.call = "getItem",
           !.key = k]
    /\ UNCHANGED <<chatVars, storageVars, ui, app>>

NextImpl ==
    \/ \E k \in ImplKeys, v \in StorableValues : ImplSetItem(k, v)
    \/ \E k \in ImplKeys : ImplRemoveItem(k)
    \/ ImplClear
    \/ \E k \in ImplKeys : ImplGetItem(k)

SpecImpl == InitImpl /\ [][NextImpl]_vars

(* --------------------- a send in flight, then another ------------------ *)
\* The provider has mounted, the load has succeeded and sendMessage(" hi ")
\* is awaiting the backend: on ChatPage's new conversation where ChatPage
\* is rendered, on "conv-1" (selected by the user) where it is not.
sendInFlight(mounted) ==
    LET t == 108
        content == <<" ", "h", "i", " ">>
        m0 == ChatPageEffect(mounted, initialState, t)
        m1 == chatReducer(m0, SetLoading(TRUE), t)
        m2 == ChatPageEffect(mounted, chatReducer(m1, SetError(NoError), t), t)
        response == [success |-> TRUE, data |-> mockConversations,
                     message |-> NoError]
        l1 == ChatPageEffect(mounted,
                  loadConversationsResume(m2, response, t), t)
        s0 == IF mounted THEN l1
              ELSE ChatPageEffect(mounted,
                       chatReducer(l1, SetCurrentConversation(<<"conv", 1>>), t),
                       t)
        cur == s0.currentConversationId
        userMessage == createMessage(<<"gen", 4>>, content, "user", t)
    IN  [state |-> ChatPageEffect(mounted,
                       sendMessageStart(s0, content, userMessage, t), t),
         aliased |-> idsOf(limitConversations(mockConversations)) \ {cur},
         sends |-> << [cur |-> cur, content |-> content, mode |-> "normal",
                       userMessage |-> userMessage, status |-> "pending",
                       calls |-> 1,
                       appended |-> hasConversation(s0.conversations, cur),
                       before |-> Len(findConversation(s0.conversations,
                                                       cur).messages),
                       opsAt |-> 0,
                       response |-> NULL] >>]

InitTwo ==
    /\ chatPageMounted \in BOOLEAN
    /\ LET w == sendInFlight(chatPageMounted)
       IN  /\ state = w.state
           /\ aliased = w.aliased
           /\ sends = w.sends
           /\ storedConversations =
                  saveConversations("ok", Absent, w.state.conversations).item
           /\ storedCurrentId =
                  saveCurrentConversationId("ok", Absent,
                      w.state.currentConversationId).item
    /\ now = 108
    /\ api = mockConversations
    /\ deletes = <<>>
    /\ loading = "done"
    /\ medium = "ok"
    /\ result = ReturnNull
    /\ providerMounted = TRUE
    /\ event = Event("sendMessage", 1, NULL)
    /\ ops = 0
    /\ InitShell

NextTwo ==
    \/ \E content \in Texts, mode \in Modes : SendMessage(content, mode)
    \/ \E sid \in DOMAIN sends, ok \in BOOLEAN, pick \in Picks :
           SendResolve(sid, ok, pick)
    \/ \E id \in SelectableIds : SelectConversation(id)
    \/ Tick

SpecTwo == InitTwo /\ [][NextTwo]_vars

(* ------------------------------ UIProvider ----------------------------- *)
InitUI ==
    /\ ChatAsConstructed
    /\ impl = implInitial
    /\ app = appInitial
    /\ \E w \in Widths :
           \/ ui = [uiInitial EXCEPT !.state = initialUIState(w),
                                     !.innerWidth = w]
           \/ \E saved \in SavedUIStates :
                  ui = [uiInitial EXCEPT
                           !.state = initialUIState(w),
                           !.innerWidth = w,
                           !.stored = [uiState |-> Json(saved),
                                       theme |-> Json(saved.theme),
                                       language |-> Json(saved.language)]]

\* a render with state st and the effects that follow it
UICommit(st, name) ==
    ui' = [ui EXCEPT
              !.state = st,
              !.stored = saveEffects("ok", ui.stored, ui.state, st, FALSE),
              !.call = name]

\* the mount effects in order: the load effect reads the saved object and
\* dispatches LOAD_SAVED_STATE, the save effects run with the initial
\* state, the resize listener is registered; then the render with the
\* loaded state and its effects
UIMount ==
    /\ ~ui.mounted
    /\ LET savedState == loadUIState("ok", ui.stored.uiState)
           first == saveEffects("ok", ui.stored, ui.state, ui.state, TRUE)
           loaded == uiReducer(ui.state,
                               UIAction("LOAD_SAVED_STATE", savedState))
       IN  ui' = [ui EXCEPT
                     !.state = loaded,
                     !.stored = saveEffects("ok", first, ui.state, loaded, FALSE),
                     !.mounted = TRUE,
                     !.call = "mount"]
    /\ UNCHANGED <<chatVars, storageVars, impl, app>>

ToggleSidebar ==
    /\ ui.mounted
    /\ UICommit(uiReducer(ui.state, UIAction("TOGGLE_SIDEBAR", FALSE)),
                "toggleSidebar")
    /\ UNCHANGED <<chatVars, storageVars, impl, app>>

SetSidebarOpen(open) ==
    /\ ui.mounted
    /\ UICommit(uiReducer(ui.state, UIAction("SET_SIDEBAR_OPEN", open)),
                "setSidebarOpen")
    /\ UNCHANGED <<chatVars, storageVars, impl, app>>

SetCurrentPage(page) ==
    /\ ui.mounted
    /\ UICommit(setCurrentPage(ui.state, page), "setCurrentPage")
    /\ UNCHANGED <<chatVars, storageVars, impl, app>>

SetTheme(theme) ==
    /\ ui.mounted
    /\ UICommit(uiReducer(ui.state, UIAction("SET_THEME", theme)), "setTheme")
    /\ UNCHANGED <<chatVars, storageVars, impl, app>>

SetLanguage(language) ==
    /\ ui.mounted
    /\ UICommit(uiReducer(ui.state, UIAction("SET_LANGUAGE", language)),
                "setLanguage")
    /\ UNCHANGED <<chatVars, storageVars, impl, app>>

\* the window is resized to innerWidth and the listener runs
Resize(innerWidth) ==
    /\ ui.mounted
    /\ ui' = [ui EXCEPT
                 !.innerWidth = innerWidth,
                 !.state = handleResize(ui.state, innerWidth),
                 !.stored = saveEffects("ok", ui.stored, ui.state,
                                handleResize(ui.state, innerWidth), FALSE),
                 !.call = "resize"]
    /\ UNCHANGED <<chatVars, storageVars, impl, app>>

NextUI ==
    \/ UIMount
    \/ ToggleSidebar
    \/ \E open \in BOOLEAN : SetSidebarOpen(open)
    \/ \E page \in {"chat", "settings"} : SetCurrentPage(page)
    \/ \E theme \in {"light", "dark"} : SetTheme(theme)
    \/ \E language \in {"en", "he"} : SetLanguage(language)
    \/ \E innerWidth \in Widths : Resize(innerWidth)

SpecUI == InitUI /\ [][NextUI]_vars

(* ----------------------- titles of conversations ----------------------- *)
\* a content of k words of n letters each
wordsOf(k, n) == join([i \in 1..k |-> [j \in 1..n |-> "a"]])

\* message contents: short ones, seven words, six words of 8 letters (53
\* characters), one word of 51 letters, padded ones
Contents ==
    { wordsOf(1, 2), wordsOf(6, 1), wordsOf(7, 1), wordsOf(6, 7),
      wordsOf(6, 8), wordsOf(1, 50), wordsOf(1, 51),
      <<" ">> \o wordsOf(2, 3) \o <<" ">> }

\* a provider holding one new, empty conversation
InitTitle ==
    /\ state = chatReducer(initialState,
                           AddConversation(newConversation(108)), 108)
    /\ now = 108
    /\ api = mockConversations
    /\ aliased = {}
    /\ sends = <<>>
    /\ deletes = <<>>
    /\ loading = "done"
    /\ storedCurrentId = Absent
    /\ storedConversations = Absent
    /\ medium = "ok"
    /\ result = ReturnNull
    /\ chatPageMounted = FALSE
    /\ providerMounted = TRUE
    /\ event = Event("init", 0, NULL)
    /\ ops = 0
    /\ InitShell

\* dispatch ADD_MESSAGE for the current conversation
DispatchAddMessage(content, role) ==
    /\ Len(state.conversations[1].messages) < MaxMessages
    /\ LET n == Len(state.conversations[1].messages) + 1
           message == createMessage(<<"gen", n>>, content, role, now)
       IN  state' = chatReducer(state,
                        AddMessage(state.currentConversationId, message), now)
    /\ event' = Event("addMessage", 0, NULL)
    /\ UNCHANGED <<now, api, aliased, sends, deletes, loading,
                   storedCurrentId, storedConversations, medium, result,
                   chatPageMounted, providerMounted, ops, shellVars>>

NextTitle ==
    \E content \in Contents, role \in {"user", "assistant"} :
        DispatchAddMessage(content, role)

SpecTitle == InitTitle /\ [][NextTitle]_vars

(* ----------------------------- ChatInterface --------------------------- *)
\* the variables of the providers, the clock excepted
notApp == <<state, api, aliased, sends, deletes, loading, chatPageMounted,
            providerMounted, ops, storageVars, impl, ui>>

InitApp ==
    /\ ChatAsConstructed
    /\ impl = implInitial
    /\ ui = uiInitial
    /\ app = appInitial

\* the input's onChange
AppSetInput(text) ==
    /\ app.input # text
    /\ app' = [app EXCEPT !.input = text, !.call = "setInput"]
    /\ UNCHANGED <<now, notApp>>

AppHandleSend ==
    /\ app.ops < MaxAppOps
    /\ LET sent == handleSend(app, now)
       IN  app' = [sent EXCEPT
                      !.log = IF Len(sent.timers) > Len(app.timers)
                              THEN Append(@, app.currentConversationId)
                              ELSE @,
                      !.call = "handleSend",
                      !.ops = @ + 1]
    /\ UNCHANGED <<now, notApp>>

\* the oldest pending timer fires
AppTimerFires ==
    /\ app.timers # <<>>
    /\ LET timer == Head(app.timers)
           fired == timerFires(app, timer, now)
       IN  app' = [fired EXCEPT
                      !.timers = Tail(app.timers),
                      !.log = Append(@, timer.currentConversationId),
                      !.call = "timer"]
    /\ UNCHANGED <<now, notApp>>

AppHandleNewConversation ==
    /\ app.ops < MaxAppOps
    /\ app' = [handleNewConversation(app, now) EXCEPT
                  !.call = "handleNewConversation", !.ops = @ + 1]
    /\ UNCHANGED <<now, notApp>>

AppHandleSelectConversation(id) ==
    /\ app.ops < MaxAppOps
    /\ app' = [handleSelectConversation(app, id) EXCEPT
                  !.call = "handleSelectConversation", !.ops = @ + 1]
    /\ UNCHANGED <<now, notApp>>

AppHandleDeleteConversation(id) ==
    /\ app.ops < MaxAppOps
    /\ app' = [handleDeleteConversation(app, id, now) EXCEPT
                  !.call = "handleDeleteConversation", !.ops = @ + 1]
    /\ UNCHANGED <<now, notApp>>

\* time passes
AppTick ==
    /\ now < 108 + MaxTicks
    /\ now' = now + 1
    /\ UNCHANGED <<app, notApp>>

NextApp ==
    \/ \E text \in { <<"h", "i">>, <<" ">> } : AppSetInput(text)
    \/ AppHandleSend
    \/ AppTimerFires
    \/ AppHandleNewConversation
    \/ \E i \in DOMAIN app.conversations :
           AppHandleSelectConversation(app.conversations[i].id)
    \/ \E i \in DOMAIN app.conversations :
           AppHandleDeleteConversation(app.conversations[i].id)
    \/ AppTick

SpecApp == InitApp /\ [][NextApp]_vars

(* ------------------------------ claims --------------------------------- *)
\* how often a message with that id occurs in a message list
occurrences(messages, id) ==
    Cardinality({k \in DOMAIN messages : messages[k].id = id})

rolesOf(messages) == [k \in DOMAIN messages |-> messages[k].role]

\* C1: right after a sendMessage call with valid text, some conversation
\* ends with exactly one new user message carrying the trimmed text (the
\* optimistic append has happened before the backend answers).
C1_OptimisticAppend ==
    (event.type = "sendMessage"
        /\ validateMessage(sends[event.sid].content).isValid) =>
    LET s == sends[event.sid]
    IN  \E i \in DOMAIN state.conversations :
            LET m == state.conversations[i].messages
            IN  /\ m # <<>>
                /\ m[Len(m)].role = "user"
                /\ m[Len(m)].content = trim(s.content)
                /\ m[Len(m)].id = s.userMessage.id
                /\ occurrences(m, s.userMessage.id) = 1
                /\ Len(m) = s.before + 1

\* C2: when the only send into a conversation that was empty at the call
\* (one just made by createNewConversation) succeeds, that conversation ends
\* with exactly the roles <<user, assistant>> and the title derived from the
\* user text.
C2_CreateThenSend ==
    (event.type = "sendOk"
        /\ sends[event.sid].appended
        /\ sends[event.sid].before = 0
        /\ hasConversation(state.conversations, sends[event.sid].cur)
        /\ \A j \in DOMAIN sends :
               j # event.sid => sends[j].cur # sends[event.sid].cur) =>
    LET s == sends[event.sid]
        c == findConversation(state.conversations, s.cur)
    IN  /\ rolesOf(c.messages) = <<"user", "assistant">>
        /\ c.title = generateConversationTitle(trim(s.content))

\* C3: when a send issued with no conversation selected succeeds (and the
\* user did nothing in between), the current conversation is in the
\* collection and holds the user message followed by the assistant reply.
C3_ImplicitConversation ==
    (event.type = "sendOk"
        /\ sends[event.sid].cur = NULL
        /\ sends[event.sid].opsAt = ops) =>
    /\ hasConversation(state.conversations, state.currentConversationId)
    /\ rolesOf(findConversation(state.conversations,
                   state.currentConversationId).messages)
           = <<"user", "assistant">>

\* C4: the resolution of a failed send leaves every conversation as it was
\* (the optimistic user message stays, no assistant message is added),
\* clears isTyping, sets lastError to the send failure, and issues no
\* further backend call for that send.
C4_SendFailure ==
    [][event'.type = "sendFail" =>
        /\ state'.conversations = state.conversations
        /\ state'.isTyping = FALSE
        /\ state'.error = SendFailure
        /\ sends'[event'.sid].calls = 1
        /\ sends'[event'.sid].response = NULL
        /\ Len(sends') = Len(sends)]_vars

C4_Witness ==
    /\ event.type = "sendFail"
    /\ sends[event.sid].appended
    /\ hasConversation(state.conversations, sends[event.sid].cur)
    /\ LET m == findConversation(state.conversations,
                    sends[event.sid].cur).messages
       IN  m # <<>> /\ m[Len(m)] = sends[event.sid].userMessage

\* C5: the backend is only ever called with a message that passes
\* validateMessage (non-empty after trimming, within the length bound).
C5_ValidationRejects ==
    \A i \in DOMAIN sends : validateMessage(sends[i].content).isValid

C7_ReplyFiledInTarget ==
    [][event'.type = "sendOk" =>
        LET s == sends[event'.sid]
        IN  /\ hasConversation(state.conversations, s.cur) =>
                  /\ hasConversation(state'.conversations, s.cur)
                  /\ LET old == findConversation(state.conversations, s.cur).messages
                         new == findConversation(state'.conversations, s.cur).messages
                     IN  /\ Len(new) = Len(old) + 1
                         /\ SubSeq(new, 1, Len(old)) = old
                         /\ new[Len(new)].role = "assistant"
            /\ state.currentConversationId # s.cur =>
                  state'.currentConversationId = state.currentConversationId]_vars

\* the conversation a delete call names
deletedId(ev) == deletes[ev.sid].id

remainingAfter(list, id) ==
    LET keep(conv) == conv.id # id IN SelectSeq(list, keep)

C10_CurrentIdValid ==
    \/ state.currentConversationId = NULL
    \/ hasConversation(state.conversations, state.currentConversationId)

\* C11: a selectConversation(id) step makes id current when id is in the
\* collection, and changes nothing of the store (no selection, no error, no
\* conversation) when it is not.
C11_SelectKnownOrNoop ==
    [][\A id \in SelectableIds :
          SelectConversation(id) =>
              IF hasConversation(state.conversations, id)
              THEN state'.currentConversationId = id
              ELSE state' = state]_vars

\* C16: a collection saved through storageUtils.saveConversations and then
\* read by storageUtils.loadConversations comes back equal to what was
\* saved, in every field, the Date fields included.
C16_StorageRoundTrip ==
    \A conversations \in SavedCollections :
        (/\ event.type = "loadConversations"
         /\ medium = "ok"
         /\ storedConversations =
                Json(JSONstringify("Conversation[]", conversations))) =>
        result = Return(conversations)

\* the calls of the storage service and of storageUtils
StorageCalls ==
    {"getItem", "setItem", "removeItem", "clear", "saveConversations",
     "loadConversations", "saveCurrentConversationId",
     "loadCurrentConversationId"}

\* C20: no storage call lets an exception reach its caller; while the medium
\* is unavailable or full, or the write does not fit, a call leaves what is
\* stored as it was; getItem returns null while the medium is unavailable
\* and for a stored text that is not JSON.
C20_StorageNeverThrows ==
    [][event'.type \in StorageCalls =>
        /\ result'.threw = FALSE
        /\ medium \in {"unavailable", "full"} =>
              /\ storedConversations' = storedConversations
              /\ storedCurrentId' = storedCurrentId
              /\ event'.type = "getItem" => result'.isNull
        /\ (medium = "nearlyFull"
               /\ event'.type \in {"setItem", "saveConversations"}) =>
              storedConversations' = storedConversations
        /\ (event'.type = "getItem" /\ storedConversations.kind = "corrupt") =>
              /\ result'.isNull
              /\ storedConversations' = storedConversations]_vars

C20_Witness ==
    /\ event.type = "getItem"
    /\ medium = "ok"
    /\ storedConversations.kind = "corrupt"
    /\ result = ReturnNull

\* C12: the collection never holds more than MAX_CONVERSATIONS
\* conversations, whatever conversations are created and messages appended.
C12_AtMostMaxConversations ==
    Len(state.conversations) <= MAX_CONVERSATIONS

\* the list a successful load installed: the collection after the step,
\* less the conversation ChatPage's effect put in front of it
installedBy(after, backend) ==
    IF after # <<>> /\ Head(after).id \notin idsOf(backend)
    THEN Tail(after) ELSE after

\* C13: the list a successful load installs is the backend's list sorted by
\* updatedAt, newest first, and cut to MAX_CONVERSATIONS: nothing in it
\* comes from elsewhere, and what is dropped is no more recent than
\* anything retained.
C13_LoadSortsAndLimits ==
    [][event'.type = "loadOk" =>
        LET installed == installedBy(state'.conversations, api)
            retained == idsOf(installed)
        IN  /\ Len(installed) =
                   IF Len(api) < MAX_CONVERSATIONS
                   THEN Len(api) ELSE MAX_CONVERSATIONS
            /\ retained \subseteq idsOf(api)
            /\ \A i, j \in DOMAIN installed :
                   i < j => getTime(installed[i].updatedAt)
                                >= getTime(installed[j].updatedAt)
            /\ \A k \in DOMAIN api :
                   api[k].id \notin retained =>
                       \A i \in DOMAIN installed :
                           getTime(installed[i].updatedAt)
                               >= getTime(api[k].updatedAt)]_vars

C13_Witness ==
    /\ event.type = "loadOk"
    /\ Len(api) > MAX_CONVERSATIONS
    /\ Len(installedBy(state.conversations, api)) = MAX_CONVERSATIONS
    /\ hasConversation(state.conversations, <<"conv", 3>>)
    /\ ~hasConversation(state.conversations, <<"conv", 2>>)

\* C14: over every step of a send (its call, its resolution), a conversation
\* of the collection keeps the messages it had, unchanged and in place, as a
\* prefix of its new messages, and no message occurs twice in it.
C14_MessagesAppendOnly ==
    [][event'.type \in {"sendMessage", "sendOk", "sendFail"} =>
        \A id \in idsOf(state.conversations) \cap idsOf(state'.conversations) :
          LET old == findConversation(state.conversations, id).messages
              new == findConversation(state'.conversations, id).messages
          IN  /\ Len(old) <= Len(new)
              /\ SubSeq(new, 1, Len(old)) = old
              /\ \A k \in DOMAIN new : occurrences(new, new[k].id) = 1]_vars

\* C15: when a successful send resolves after the conversation it was sent
\* into has been deleted, the resolution changes no conversation, does not
\* bring the deleted one back, and leaves lastError as it was.
C15_ResolveAfterDelete ==
    [][(/\ event'.type = "sendOk"
        /\ sends[event'.sid].appended
        /\ \E d \in DOMAIN deletes :
               deletes[d].id = sends[event'.sid].cur /\ deletes[d].status = "ok"
        /\ ~hasConversation(state.conversations, sends[event'.sid].cur)) =>
        /\ state'.conversations = state.conversations
        /\ ~hasConversation(state'.conversations, sends[event'.sid].cur)
        /\ state'.error = state.error
        /\ state'.currentConversationId = state.currentConversationId]_vars

C15_Witness ==
    /\ event.type = "sendOk"
    /\ sends[event.sid].appended
    /\ \E d \in DOMAIN deletes :
           deletes[d].id = sends[event.sid].cur /\ deletes[d].status = "ok"
    /\ ~hasConversation(state.conversations, sends[event.sid].cur)
    /\ hasConversation(api, sends[event.sid].response)
    /\ state.isTyping = FALSE

\* what the medium holds when it mirrors the store
mirrorOfConversations(st) ==
    Json(JSONstringify("Conversation[]", st.conversations))
mirrorOfCurrentId(st) ==
    IF st.currentConversationId = NULL
    THEN Absent ELSE Json(st.currentConversationId)

\* C17: once a mutation of the collection (a load, an append, a delete) has
\* been processed, the conversations key holds the collection and the
\* current-id key holds currentConversationId (nothing when it is null),
\* also when the collection has become empty.
C17_PersistedMirrorsStore ==
    (\/ event.type \in {"loadOk", "deleteOk"}
     \/ event.type = "sendMessage" /\ sends[event.sid].appended) =>
        /\ storedConversations = mirrorOfConversations(state)
        /\ storedCurrentId = mirrorOfCurrentId(state)

\* C18 as claimed: after a failed load isLoading is false, lastError is the
\* load failure and the collection is empty.
C18_FailedLoadLeavesEmpty ==
    event.type = "loadFail" =>
        /\ state.isLoading = FALSE
        /\ state.error = LoadFailure
        /\ state.conversations = <<>>

\* C18 amended: isLoading is true from the start of the load to its
\* completion and false from then on, on success and on failure; every
\* load completes; a failed load sets lastError to the load failure and
\* leaves the collection as it is (with whatever was created meanwhile).
C18_LoadingFlag ==
    /\ [][/\ event'.type = "mount" => state'.isLoading = TRUE
          /\ event'.type \in {"loadOk", "loadFail"} => state'.isLoading = FALSE
          /\ state'.isLoading = (loading' = "pending")
          /\ event'.type = "loadFail" =>
                 /\ state'.error = LoadFailure
                 /\ state'.conversations = state.conversations]_vars
    /\ (state.isLoading = TRUE) ~> (state.isLoading = FALSE)

C18_Witness ==
    /\ event.type = "loadFail"
    /\ state.isLoading = FALSE
    /\ state.error = LoadFailure
    /\ state.conversations # <<>>

\* C19: when a previous session persisted conversations, the start of the
\* provider installs them (the same conversations in the same order) and
\* the persisted current id, and does not call the backend.
C19_StartupRestoresPersisted ==
    [][(event'.type = "mount" /\ storedConversations.kind = "json") =>
          /\ Len(state'.conversations) = Len(storedConversations.value)
          /\ \A i \in 1..Len(storedConversations.value) :
                 state'.conversations[i].id = storedConversations.value[i].id
          /\ state'.currentConversationId = storedCurrentId.value
          /\ loading' # "pending"]_vars

\* two getItem outcomes are the same: both null, or the same value
sameOutcome(a, b) ==
    /\ a.threw = b.threw
    /\ a.isNull = b.isNull
    /\ ~a.isNull => a.value = b.value

\* C21: after the same calls, getItem(k) returns the same on the three
\* services, and it returns v when the last write of k was setItem(k, v),
\* for every storable v (false, 0 and "" included).
C21_ServicesInterchangeable ==
    impl.call = "getItem" =>
        /\ sameOutcome(impl.got.local, impl.got.session)
        /\ sameOutcome(impl.got.local, impl.got.memory)
        /\ impl.written[impl.key].kind = "json" =>
               \A service \in {"local", "session", "memory"} :
                   sameOutcome(impl.got[service],
                               Return(impl.written[impl.key].value))

\* C22: no two conversations of the collection share an id, in every
\* reachable state (two creations at the same clock instant included).
C22_UniqueConversationIds ==
    \A i, j \in 1..Len(state.conversations) :
        state.conversations[i].id = state.conversations[j].id => i = j

\* C23: isTyping is true exactly while some sendMessage has started its
\* backend call and has not resolved, overlapping sends included.
C23_TypingWhileOutstanding ==
    providerMounted =>
        (state.isTyping = (\E sid \in DOMAIN sends :
                               sends[sid].status = "pending"))

\* the message lists of the conversations of st that carry the id
messagesUnder(st, id) ==
    LET held == SelectSeq(st.conversations, LAMBDA c : c.id = id)
    IN  [i \in DOMAIN held |-> held[i].messages]

\* the store and the backend after the send sid has settled
settled(w, sid, ok) ==
    LET out == sendResolveOutcome(w.state, w.api, w.aliased, sends[sid],
                                  sid, ok, "1", now)
    IN  [state |-> ChatPageEffect(chatPageMounted, out.state, now),
         api |-> out.api, aliased |-> out.aliased]

\* two sends on different conversations are awaiting the backend
overlapping(a, b) ==
    /\ a # b
    /\ sends[a].status = "pending"
    /\ sends[b].status = "pending"
    /\ sends[a].cur # NULL
    /\ sends[b].cur # NULL
    /\ sends[a].cur # sends[b].cur

\* C24: when a send on conversation A settles (successfully or not), every
\* conversation other than A keeps its messages, title and updatedAt; and
\* when sends on two different conversations are both in flight, the
\* messages of the two conversations end up the same whichever send settles
\* first, for every pair of outcomes.
C24_NoCrossEffects ==
    /\ [][event'.type \in {"sendOk", "sendFail"} =>
             \A i \in DOMAIN state.conversations :
                 state.conversations[i].id # sends[event'.sid].cur =>
                     \E j \in DOMAIN state'.conversations :
                         /\ state'.conversations[j].id = state.conversations[i].id
                         /\ state'.conversations[j].messages =
                                state.conversations[i].messages
                         /\ state'.conversations[j].title =
                                state.conversations[i].title
                         /\ state'.conversations[j].updatedAt =
                                state.conversations[i].updatedAt]_vars
    /\ [](\A a, b \in DOMAIN sends : overlapping(a, b) =>
             \A okA, okB \in BOOLEAN :
                 LET w == [state |-> state, api |-> api, aliased |-> aliased]
                     ab == settled(settled(w, a, okA), b, okB)
                     ba == settled(settled(w, b, okB), a, okA)
                 IN  \A id \in {sends[a].cur, sends[b].cur} :
                         messagesUnder(ab.state, id) = messagesUnder(ba.state, id))

\* the later of two overlapping sends has succeeded, then the earlier one
C24_Witness ==
    /\ Len(sends) = 2
    /\ event.type = "sendOk"
    /\ event.sid = 1
    /\ sends[2].status = "ok"
    /\ sends[1].cur # sends[2].cur
    /\ hasConversation(state.conversations, sends[1].cur)
    /\ hasConversation(state.conversations, sends[2].cur)

\* C25: after every processed preference update the stored ui-state object
\* is the in-memory preferences and the theme and language keys hold the
\* in-memory theme and language; what a previous session saved is the
\* state after the mount, not the defaults.
C25_PreferencesPersisted ==
    /\ [](ui.mounted =>
             /\ ui.stored.uiState = Json(ui.state)
             /\ ui.stored.theme = Json(ui.state.theme)
             /\ ui.stored.language = Json(ui.state.language))
    /\ [][(~ui.mounted /\ ui'.mounted /\ ui.stored.uiState.kind = "json") =>
             /\ ui'.state = ui.stored.uiState.value
             /\ ui'.stored.uiState = ui.stored.uiState
             /\ ui'.stored.theme = ui.stored.theme
             /\ ui'.stored.language = ui.stored.language]_vars

\* saved dark / he / settings preferences are back after the mount
C25_Witness ==
    /\ ui.mounted
    /\ ui.call = "mount"
    /\ ui.state.theme = "dark"
    /\ ui.state.language = "he"
    /\ ui.state.currentPage = "settings"
    /\ ui.stored.theme = Json("dark")

\* C26: once the provider runs, isMobile is the value computed from the
\* current viewport width: after every resize, and after the saved state
\* has been loaded.
C26_IsMobileFromViewport ==
    ui.mounted => ui.state.isMobile = isMobile(ui.innerWidth)

\* s begins with p
startsWith(s, p) == Len(p) <= Len(s) /\ SubSeq(s, 1, Len(p)) = p

\* C27: a conversation without messages is titled "New Conversation"; with
\* messages, its title is the beginning of its first message (trimmed), of
\* at most 6 words and at most 50 characters; appending a later message
\* leaves the title as it is.
C27_TitleFromFirstMessage ==
    /\ [](\A i \in DOMAIN state.conversations :
             LET c == state.conversations[i]
             IN  IF Len(c.messages) = 0
                 THEN c.title = NewConversationTitle
                 ELSE /\ startsWith(trim(c.messages[1].content), c.title)
                      /\ Len(split(c.title)) <= 6
                      /\ Len(c.title) <= 50)
    /\ [][\A i \in DOMAIN state.conversations :
             Len(state.conversations[i].messages) > 0 =>
                 state'.conversations[i].title = state.conversations[i].title]_vars

\* C28: the conversations created while the load is in flight are in the
\* collection after the load has completed, and the current one among them
\* is still the current conversation.
C28_CreatedDuringLoadKept ==
    [][(loading = "pending" /\ event'.type \in {"loadOk", "loadFail"}) =>
          /\ \A i \in DOMAIN state.conversations :
                 \E j \in DOMAIN state'.conversations :
                     state'.conversations[j] = state.conversations[i]
          /\ hasConversation(state.conversations,
                             state.currentConversationId) =>
                 /\ state'.currentConversationId = state.currentConversationId
                 /\ hasConversation(state'.conversations,
                                    state'.currentConversationId)]_vars

\* the number of messages handed to the conversation id: user messages
\* sent and assistant responses produced
handedTo(id) == Cardinality({k \in DOMAIN app.log : app.log[k] = id})

\* C29: once every pending response has fired, each of the two initial
\* conversations still listed holds its two initial messages and every
\* user message sent to it and every response produced for it.
C29_NoMessageLost ==
    app.timers = <<>> =>
        \A id \in {AppId(1), AppId(2)} :
            appHas(app.conversations, id) =>
                Len(appFind(app.conversations, id).messages) = 2 + handedTo(id)

\* C30: the displayed messages are the messages of the conversation that
\* currentConversationId identifies.
C30_DisplayedIsCurrent ==
    /\ appHas(app.conversations, app.currentConversationId)
    /\ app.messages =
           appFind(app.conversations, app.currentConversationId).messages

====
